---- MODULE Spec2Model ----
(***************************************************************************)
(* A model of keras/callbacks.py: the CallbackList dispatcher with its     *)
(* slow-callback heuristic, and the callbacks BaseLogger, History,         *)
(* ModelCheckpoint and EarlyStopping.                                      *)
(*                                                                         *)
(* Every hook of the source is one action.  A hook that raises (an         *)
(* attribute that does not exist yet, a division by zero) is an action     *)
(* that keeps the assignments made before the raise and sets `failed`.     *)
(* Losses are in tenths, durations in units of 0.05 s, so that all         *)
(* arithmetic stays in the integers; a quotient a / b is the pair <<a, b>>.*)
(***************************************************************************)
EXTENDS Integers, Sequences, FiniteSets, TLC

\* ------------------------------------------------------------------ bounds

MaxEpochs == 4
MaxPatience == 2
MaxCallbacks == 2
MaxBatches == 3
MaxHistEpochs == 2
MaxHistBatches == 2
MaxLogValues == 5
MaxCurrent == 3
MaxMixFed == 2
MaxSeen == 2
\* the queue_length handed to CallbackList (10 by default)
QueueLength == 2

\* np.Inf: above every loss the model feeds.
Inf == 1000

\* validation losses, in tenths: 0.4, 0.5, 0.6, 1.0
Losses == {4, 5, 6, 10}

\* the callbacks a CallbackList may hold
CallbackIds == {1, 2}
\* epoch or batch indices, and the logs (params, model) objects handed over
Indices == {0, 1}
Args == {0, 1}
NoIndex == 0 - 1
\* time.time() differences in units of 0.05 s: a dispatch of all callbacks,
\* and the time between on_batch_begin's return and on_batch_end's entry
DispatchDurations == {0, 3}
\* the logs of a batch: its size, its loss in tenths, its accuracy (0 or 1)
BatchLogs ==
    {[size |-> 0, loss |-> 4, accuracy |-> 1],
     [size |-> 1, loss |-> 4, accuracy |-> 0],
     [size |-> 2, loss |-> 10, accuracy |-> 1]}
\* the logs of an epoch end
EpochLogs ==
    {[val_loss |-> 5, val_accuracy |-> 1], [val_loss |-> 6, val_accuracy |-> 0]}
BatchDurations == {0, 1, 4}

VARIABLES
    params,              \* Callback.params (set by _set_params before training)
    last,                \* name of the hook called last
    warned,              \* that call went through warnings.warn
    failed,              \* that call raised
    fed,                 \* the val_loss of every on_epoch_end call so far
    saved,               \* per on_epoch_end call: number of model.save_weights calls
    stop_training,       \* model.stop_training
    es_patience,         \* EarlyStopping.patience
    es_best_val_loss,    \* EarlyStopping.best_val_loss
    es_wait,             \* EarlyStopping.wait
    es_wrote_stop,       \* the last on_epoch_end assigned model.stop_training
    mc_save_best_only,   \* ModelCheckpoint.save_best_only
    mc_loss,             \* ModelCheckpoint.loss
    mc_best_loss,        \* ModelCheckpoint.best_loss
    mc_val_loss,         \* ModelCheckpoint.val_loss
    mc_best_val_loss,    \* ModelCheckpoint.best_val_loss
    cl_callbacks,        \* CallbackList.callbacks
    cl_queue_length,     \* CallbackList.queue_length
    cl_has_timing,       \* _delta_t_batch and both deques exist (on_epoch_begin ran)
    cl_delta_t_batch,    \* CallbackList._delta_t_batch
    cl_delta_ts_batch_begin, \* CallbackList._delta_ts_batch_begin
    cl_delta_ts_batch_end,   \* CallbackList._delta_ts_batch_end
    cl_has_t_enter,      \* _t_enter_batch exists (an on_batch_begin completed)
    cl_calls,            \* the hook calls the last CallbackList call made, in order
    cl_index,            \* the epoch or batch index of the last CallbackList call
    cl_arg,              \* its logs (or params, or model) argument
    cl_begin_durations,  \* on_batch_begin dispatch durations since on_epoch_begin
    cl_end_durations,    \* on_batch_end dispatch durations since on_epoch_begin
    cl_batch_duration,   \* the duration the last on_batch_end measured, 0 since on_epoch_begin
    cl_epoch_begun,      \* on_epoch_begin has been called
    cl_batch_begun,      \* on_batch_begin has been called after an on_epoch_begin
    h_has_lists,         \* History.epoch, loss, ... exist (on_train_begin ran)
    h_epoch,             \* History.epoch
    h_loss,              \* History.loss
    h_accuracy,          \* History.accuracy
    h_validation_loss,   \* History.validation_loss
    h_validation_accuracy, \* History.validation_accuracy
    h_has_totals,        \* History.seen, tot_loss, tot_accuracy exist (on_epoch_begin ran)
    h_seen,              \* History.seen
    h_tot_loss,          \* History.tot_loss
    h_tot_accuracy,      \* History.tot_accuracy
    h_batches,           \* the logs of the on_batch_end calls since on_epoch_begin
    h_passed,            \* the epoch indices of the on_epoch_end calls since on_train_begin
    bl_has_verbose,      \* BaseLogger.verbose exists (on_train_begin ran)
    bl_verbose,          \* BaseLogger.verbose
    bl_has_progbar,      \* BaseLogger.progbar exists
    bl_has_totals,       \* BaseLogger.current, tot_loss, tot_acc exist (on_epoch_begin ran)
    bl_current,          \* BaseLogger.current
    bl_tot_loss,         \* BaseLogger.tot_loss
    bl_tot_acc,          \* BaseLogger.tot_acc
    bl_has_log_values,   \* BaseLogger.log_values exists
    bl_log_values,       \* BaseLogger.log_values: pairs <<label, value>>
    bl_updates,          \* the progbar.update(current, values) calls of the last hook
    bl_batch_begun,      \* on_batch_begin was called after the latest on_epoch_begin and on_epoch_end
    rm_seen,             \* RemoteMonitor.seen
    rm_tot_loss,         \* RemoteMonitor.tot_loss
    rm_tot_accuracy,     \* RemoteMonitor.tot_accuracy
    d_hook,              \* the CallbackList method whose loop is running, "none" outside
    d_pos,               \* position in self.callbacks of the callback the loop calls next
    d_index,             \* the epoch or batch index that method was given
    d_logs,              \* the logs mapping it was given: one object, handed to every callback
    d_supplied,          \* the contents of logs when the training loop made the call
    d_seen,              \* the contents of logs each callback of the loop found on entry
    d_run_start          \* how many losses had been fed when on_train_begin was last called

callVars == <<last, warned, failed>>
modelVars == <<fed, saved, stop_training>>
esVars == <<es_patience, es_best_val_loss, es_wait, es_wrote_stop>>
mcVars == <<mc_save_best_only, mc_loss, mc_best_loss, mc_val_loss, mc_best_val_loss>>
clVars ==
    <<cl_callbacks, cl_queue_length, cl_has_timing, cl_delta_t_batch,
      cl_delta_ts_batch_begin, cl_delta_ts_batch_end, cl_has_t_enter, cl_calls,
      cl_index, cl_arg, cl_begin_durations, cl_end_durations, cl_batch_duration,
      cl_epoch_begun, cl_batch_begun>>
hVars ==
    <<h_has_lists, h_epoch, h_loss, h_accuracy, h_validation_loss, h_validation_accuracy,
      h_has_totals, h_seen, h_tot_loss, h_tot_accuracy, h_batches, h_passed>>
blVars ==
    <<bl_has_verbose, bl_verbose, bl_has_progbar, bl_has_totals, bl_current, bl_tot_loss,
      bl_tot_acc, bl_has_log_values, bl_log_values, bl_updates, bl_batch_begun>>
rmVars == <<rm_seen, rm_tot_loss, rm_tot_accuracy>>
dVars == <<d_hook, d_pos, d_index, d_logs, d_supplied, d_seen, d_run_start>>
\* the state of a loop over a mixed list of callbacks: its hooks are steps of
\* their own, so no hook of another class freezes it
mixVars == <<rmVars, dVars>>
notES == <<mcVars, clVars, hVars, blVars>>
notMC == <<esVars, clVars, hVars, blVars>>
notCL == <<esVars, mcVars, hVars, blVars>>
notH == <<esVars, mcVars, clVars, blVars>>
notBL == <<esVars, mcVars, clVars, hVars>>
vars == <<params, callVars, modelVars, esVars, mcVars, clVars, hVars, blVars, mixVars>>

\* The params mapping handed to _set_params.
Params ==
    [verbose : {0, 1}, nb_sample : {2}, show_accuracy : BOOLEAN, do_validation : BOOLEAN]

\* ---------------------------------------------------------- EarlyStopping

\* EarlyStopping.__init__ (after _set_params, _set_model)
ES_init(patience) ==
    /\ es_patience = patience
    /\ es_best_val_loss = Inf
    /\ es_wait = 0
    /\ es_wrote_stop = FALSE

\* a patience check made after the increment instead of before it
ES_on_epoch_end_early(cur_val_loss) ==
    /\ last' = "es_on_epoch_end"
    /\ warned' = ~params.do_validation
    /\ failed' = FALSE
    /\ fed' = Append(fed, cur_val_loss)
    /\ IF cur_val_loss < es_best_val_loss
       THEN /\ es_best_val_loss' = cur_val_loss
            /\ es_wait' = 0
            /\ es_wrote_stop' = FALSE
            /\ UNCHANGED stop_training
       ELSE /\ es_wait' = es_wait + 1
            /\ IF es_wait + 1 >= es_patience
               THEN stop_training' = TRUE /\ es_wrote_stop' = TRUE
               ELSE UNCHANGED stop_training /\ es_wrote_stop' = FALSE
            /\ UNCHANGED es_best_val_loss
    /\ UNCHANGED <<params, saved, es_patience, notES>>

\* a tie with the minimum counted as an improvement
ES_on_epoch_end_tie(cur_val_loss) ==
    /\ last' = "es_on_epoch_end"
    /\ warned' = ~params.do_validation
    /\ failed' = FALSE
    /\ fed' = Append(fed, cur_val_loss)
    /\ IF cur_val_loss <= es_best_val_loss
       THEN /\ es_best_val_loss' = cur_val_loss
            /\ es_wait' = 0
            /\ es_wrote_stop' = FALSE
            /\ UNCHANGED stop_training
       ELSE /\ IF es_wait >= es_patience
               THEN stop_training' = TRUE /\ es_wrote_stop' = TRUE
               ELSE UNCHANGED stop_training /\ es_wrote_stop' = FALSE
            /\ es_wait' = es_wait + 1
            /\ UNCHANGED es_best_val_loss
    /\ UNCHANGED <<params, saved, es_patience, notES>>

\* a return right after the warning of line 264
ES_on_epoch_end_return(cur_val_loss) ==
    /\ last' = "es_on_epoch_end"
    /\ warned' = ~params.do_validation
    /\ failed' = FALSE
    /\ fed' = Append(fed, cur_val_loss)
    /\ IF ~params.do_validation
       THEN /\ es_wrote_stop' = FALSE
            /\ UNCHANGED <<es_best_val_loss, es_wait, stop_training>>
       ELSE IF cur_val_loss < es_best_val_loss
       THEN /\ es_best_val_loss' = cur_val_loss
            /\ es_wait' = 0
            /\ es_wrote_stop' = FALSE
            /\ UNCHANGED stop_training
       ELSE /\ IF es_wait >= es_patience
               THEN stop_training' = TRUE /\ es_wrote_stop' = TRUE
               ELSE UNCHANGED stop_training /\ es_wrote_stop' = FALSE
            /\ es_wait' = es_wait + 1
            /\ UNCHANGED es_best_val_loss
    /\ UNCHANGED <<params, saved, es_patience, notES>>

\* the stop flag cleared by an improving epoch
ES_on_epoch_end_clear(cur_val_loss) ==
    /\ last' = "es_on_epoch_end"
    /\ warned' = ~params.do_validation
    /\ failed' = FALSE
    /\ fed' = Append(fed, cur_val_loss)
    /\ IF cur_val_loss < es_best_val_loss
       THEN /\ es_best_val_loss' = cur_val_loss
            /\ es_wait' = 0
            /\ es_wrote_stop' = FALSE
            /\ stop_training' = FALSE
       ELSE /\ IF es_wait >= es_patience
               THEN stop_training' = TRUE /\ es_wrote_stop' = TRUE
               ELSE UNCHANGED stop_training /\ es_wrote_stop' = FALSE
            /\ es_wait' = es_wait + 1
            /\ UNCHANGED es_best_val_loss
    /\ UNCHANGED <<params, saved, es_patience, notES>>

\* EarlyStopping.on_epoch_end(epoch, logs) with logs['val_loss'] = cur_val_loss
ES_on_epoch_end(cur_val_loss) ==
    /\ last' = "es_on_epoch_end"
    /\ warned' = ~params.do_validation
    /\ failed' = FALSE
    /\ fed' = Append(fed, cur_val_loss)
    /\ IF cur_val_loss < es_best_val_loss
       THEN /\ es_best_val_loss' = cur_val_loss
            /\ es_wait' = 0
            /\ es_wrote_stop' = FALSE
            /\ UNCHANGED stop_training
       ELSE /\ IF es_wait >= es_patience
               THEN stop_training' = TRUE /\ es_wrote_stop' = TRUE
               ELSE UNCHANGED stop_training /\ es_wrote_stop' = FALSE
            /\ es_wait' = es_wait + 1
            /\ UNCHANGED es_best_val_loss
    /\ UNCHANGED <<params, saved, es_patience, notES>>

\* an on_train_begin that starts every run from the constructor's values
ES_inherited_hook_reset(name) ==
    /\ last' = name
    /\ warned' = FALSE
    /\ failed' = FALSE
    /\ es_wrote_stop' = FALSE
    /\ es_best_val_loss' = (IF name = "on_train_begin" THEN Inf ELSE es_best_val_loss)
    /\ es_wait' = (IF name = "on_train_begin" THEN 0 ELSE es_wait)
    /\ UNCHANGED <<params, modelVars, es_patience, notES>>

\* the hooks EarlyStopping inherits from Callback: no-ops
ES_inherited_hook(name) ==
    /\ last' = name
    /\ warned' = FALSE
    /\ failed' = FALSE
    /\ es_wrote_stop' = FALSE
    /\ UNCHANGED <<params, modelVars, es_patience, es_best_val_loss, es_wait, notES>>

InheritedHooks ==
    {"on_train_begin", "on_train_end", "on_epoch_begin", "on_batch_begin", "on_batch_end"}

\* -------------------------------------------------------- ModelCheckpoint

\* ModelCheckpoint.__init__
MC_init(save_best_only) ==
    /\ mc_save_best_only = save_best_only
    /\ mc_loss = <<>>
    /\ mc_best_loss = Inf
    /\ mc_val_loss = <<>>
    /\ mc_best_val_loss = Inf

\* a tie with the minimum saved again
MC_on_epoch_end_tie(cur_val_loss) ==
    /\ last' = "mc_on_epoch_end"
    /\ failed' = FALSE
    /\ fed' = Append(fed, cur_val_loss)
    /\ IF mc_save_best_only /\ params.do_validation
       THEN /\ mc_val_loss' = Append(mc_val_loss, cur_val_loss)
            /\ IF cur_val_loss <= mc_best_val_loss
               THEN mc_best_val_loss' = cur_val_loss /\ saved' = Append(saved, 1)
               ELSE UNCHANGED mc_best_val_loss /\ saved' = Append(saved, 0)
            /\ warned' = FALSE
       ELSE IF mc_save_best_only /\ ~params.do_validation
       THEN /\ warned' = TRUE
            /\ saved' = Append(saved, 0)
            /\ UNCHANGED <<mc_val_loss, mc_best_val_loss>>
       ELSE /\ warned' = FALSE
            /\ saved' = Append(saved, 1)
            /\ UNCHANGED <<mc_val_loss, mc_best_val_loss>>
    /\ UNCHANGED <<params, stop_training, mc_save_best_only, mc_loss, mc_best_loss, notMC>>

\* the save_best_only flag ignored: the validation branch taken whenever
\* validation is on, and no save without it
MC_on_epoch_end_always_best(cur_val_loss) ==
    /\ last' = "mc_on_epoch_end"
    /\ failed' = FALSE
    /\ fed' = Append(fed, cur_val_loss)
    /\ IF params.do_validation
       THEN /\ mc_val_loss' = Append(mc_val_loss, cur_val_loss)
            /\ IF cur_val_loss < mc_best_val_loss
               THEN mc_best_val_loss' = cur_val_loss /\ saved' = Append(saved, 1)
               ELSE UNCHANGED mc_best_val_loss /\ saved' = Append(saved, 0)
            /\ warned' = FALSE
       ELSE /\ warned' = mc_save_best_only
            /\ saved' = Append(saved, 0)
            /\ UNCHANGED <<mc_val_loss, mc_best_val_loss>>
    /\ UNCHANGED <<params, stop_training, mc_save_best_only, mc_loss, mc_best_loss, notMC>>

\* the misconfigured branch saving anyway after its warning
MC_on_epoch_end_warn_save(cur_val_loss) ==
    /\ last' = "mc_on_epoch_end"
    /\ failed' = FALSE
    /\ fed' = Append(fed, cur_val_loss)
    /\ IF mc_save_best_only /\ params.do_validation
       THEN /\ mc_val_loss' = Append(mc_val_loss, cur_val_loss)
            /\ IF cur_val_loss < mc_best_val_loss
               THEN mc_best_val_loss' = cur_val_loss /\ saved' = Append(saved, 1)
               ELSE UNCHANGED mc_best_val_loss /\ saved' = Append(saved, 0)
            /\ warned' = FALSE
       ELSE IF mc_save_best_only /\ ~params.do_validation
       THEN /\ warned' = TRUE
            /\ saved' = Append(saved, 1)
            /\ UNCHANGED <<mc_val_loss, mc_best_val_loss>>
       ELSE /\ warned' = FALSE
            /\ saved' = Append(saved, 1)
            /\ UNCHANGED <<mc_val_loss, mc_best_val_loss>>
    /\ UNCHANGED <<params, stop_training, mc_save_best_only, mc_loss, mc_best_loss, notMC>>

\* the loss tracked in loss and best_loss where the selection is not by
\* validation
MC_on_epoch_end_track_loss(cur_val_loss) ==
    /\ last' = "mc_on_epoch_end"
    /\ failed' = FALSE
    /\ fed' = Append(fed, cur_val_loss)
    /\ IF mc_save_best_only /\ params.do_validation
       THEN /\ mc_val_loss' = Append(mc_val_loss, cur_val_loss)
            /\ IF cur_val_loss < mc_best_val_loss
               THEN mc_best_val_loss' = cur_val_loss /\ saved' = Append(saved, 1)
               ELSE UNCHANGED mc_best_val_loss /\ saved' = Append(saved, 0)
            /\ warned' = FALSE
            /\ UNCHANGED <<mc_loss, mc_best_loss>>
       ELSE /\ warned' = mc_save_best_only
            /\ saved' = Append(saved, IF mc_save_best_only THEN 0 ELSE 1)
            /\ mc_loss' = Append(mc_loss, cur_val_loss)
            /\ mc_best_loss' =
                  (IF cur_val_loss < mc_best_loss THEN cur_val_loss ELSE mc_best_loss)
            /\ UNCHANGED <<mc_val_loss, mc_best_val_loss>>
    /\ UNCHANGED <<params, stop_training, mc_save_best_only, notMC>>

\* ModelCheckpoint.on_epoch_end(epoch, logs) with logs['val_loss'] = cur_val_loss
MC_on_epoch_end(cur_val_loss) ==
    /\ last' = "mc_on_epoch_end"
    /\ failed' = FALSE
    /\ fed' = Append(fed, cur_val_loss)
    /\ IF mc_save_best_only /\ params.do_validation
       THEN /\ mc_val_loss' = Append(mc_val_loss, cur_val_loss)
            /\ IF cur_val_loss < mc_best_val_loss
               THEN mc_best_val_loss' = cur_val_loss /\ saved' = Append(saved, 1)
               ELSE UNCHANGED mc_best_val_loss /\ saved' = Append(saved, 0)
            /\ warned' = FALSE
       ELSE IF mc_save_best_only /\ ~params.do_validation
       THEN /\ warned' = TRUE
            /\ saved' = Append(saved, 0)
            /\ UNCHANGED <<mc_val_loss, mc_best_val_loss>>
       ELSE /\ warned' = FALSE
            /\ saved' = Append(saved, 1)
            /\ UNCHANGED <<mc_val_loss, mc_best_val_loss>>
    /\ UNCHANGED <<params, stop_training, mc_save_best_only, mc_loss, mc_best_loss, notMC>>

\* the hooks ModelCheckpoint inherits from Callback: no-ops
MC_inherited_hook(name) ==
    /\ last' = name
    /\ warned' = FALSE
    /\ failed' = FALSE
    /\ UNCHANGED <<params, modelVars, mcVars, notMC>>

\* ----------------------------------------------------------- CallbackList

\* the 0.95 of lines 47 and 60, in percent
SlowRatioPercent == 95
\* the 0.1 s of lines 48 and 61, in units of 0.05 s
SlowFloor == 2

\* CallbackList.__init__(callbacks, queue_length)
CL_init(callbacks, queue_length) ==
    /\ cl_callbacks = callbacks
    /\ cl_queue_length = queue_length
    /\ cl_has_timing = FALSE
    /\ cl_delta_t_batch = 0
    /\ cl_delta_ts_batch_begin = <<>>
    /\ cl_delta_ts_batch_end = <<>>
    /\ cl_has_t_enter = FALSE
    /\ cl_calls = <<>>
    /\ cl_index = NoIndex
    /\ cl_arg = 0
    /\ cl_begin_durations = <<>>
    /\ cl_end_durations = <<>>
    /\ cl_batch_duration = 0
    /\ cl_epoch_begun = FALSE
    /\ cl_batch_begun = FALSE

\* the last registered callback left out of the loop
Dispatch_skip_last(callbacks, hook, index, arg) ==
    [k \in 1..(Len(callbacks) - 1) |->
        [cb |-> callbacks[k], hook |-> hook, index |-> index, arg |-> arg]]

\* `for callback in self.callbacks: callback.<hook>(index, logs)`
Dispatch(callbacks, hook, index, arg) ==
    [k \in 1..Len(callbacks) |->
        [cb |-> callbacks[k], hook |-> hook, index |-> index, arg |-> arg]]

\* deque(maxlen).append that never evicts
DequeAppend_no_evict(q, x, maxlen) == Append(q, x)

\* deque(maxlen).append: the oldest entry leaves a full deque
DequeAppend(q, x, maxlen) ==
    IF Len(q) >= maxlen THEN Tail(q) \o <<x>> ELSE Append(q, x)

SortedInsert(s, x) ==
    LET k == Cardinality({i \in 1..Len(s) : s[i] <= x})
    IN  SubSeq(s, 1, k) \o <<x>> \o SubSeq(s, k + 1, Len(s))

RECURSIVE Sorted(_)
Sorted(s) == IF s = <<>> THEN <<>> ELSE SortedInsert(Sorted(Tail(s)), Head(s))

\* twice np.median(s), s not empty: the middle entry of the sorted values, or
\* the mean of the two middle ones
Median2(s) ==
    LET t == Sorted(s)
        n == Len(s)
    IN  IF n % 2 = 1 THEN 2 * t[(n + 1) \div 2] ELSE t[n \div 2] + t[n \div 2 + 1]

\* the test without `self._delta_t_batch > 0.`
SlowWarning_no_positive(delta_t_batch, median2) ==
    /\ 100 * median2 > 2 * SlowRatioPercent * delta_t_batch
    /\ median2 > 2 * SlowFloor

\* the test of lines 47-48 and 60-61 on twice the median
SlowWarning(delta_t_batch, median2) ==
    /\ delta_t_batch > 0
    /\ 100 * median2 > 2 * SlowRatioPercent * delta_t_batch
    /\ median2 > 2 * SlowFloor

\* what every CallbackList call records
CL_call(hook, index, arg, calls, w, f) ==
    /\ last' = hook
    /\ cl_index' = index
    /\ cl_arg' = arg
    /\ cl_calls' = calls
    /\ warned' = w
    /\ failed' = f
    /\ cl_epoch_begun' = (cl_epoch_begun \/ hook = "on_epoch_begin")
    /\ cl_batch_begun' = (cl_batch_begun \/ (hook = "on_batch_begin" /\ cl_epoch_begun))
    /\ UNCHANGED <<params, modelVars, notCL, cl_queue_length>>

timingVars ==
    <<cl_has_timing, cl_delta_t_batch, cl_delta_ts_batch_begin, cl_delta_ts_batch_end,
      cl_has_t_enter, cl_begin_durations, cl_end_durations, cl_batch_duration>>

\* CallbackList.append
CL_append(callback) ==
    /\ cl_callbacks' = Append(cl_callbacks, callback)
    /\ CL_call("append", NoIndex, callback, <<>>, FALSE, FALSE)
    /\ UNCHANGED timingVars

\* CallbackList._set_params
CL_set_params(p) ==
    /\ CL_call("_set_params", NoIndex, p, Dispatch(cl_callbacks, "_set_params", NoIndex, p),
               FALSE, FALSE)
    /\ UNCHANGED <<cl_callbacks, timingVars>>

\* CallbackList._set_model
CL_set_model(m) ==
    /\ CL_call("_set_model", NoIndex, m, Dispatch(cl_callbacks, "_set_model", NoIndex, m),
               FALSE, FALSE)
    /\ UNCHANGED <<cl_callbacks, timingVars>>

\* CallbackList.on_train_begin
CL_on_train_begin(logs) ==
    /\ CL_call("on_train_begin", NoIndex, logs,
               Dispatch(cl_callbacks, "on_train_begin", NoIndex, logs), FALSE, FALSE)
    /\ UNCHANGED <<cl_callbacks, timingVars>>

\* CallbackList.on_train_end
CL_on_train_end(logs) ==
    /\ CL_call("on_train_end", NoIndex, logs,
               Dispatch(cl_callbacks, "on_train_end", NoIndex, logs), FALSE, FALSE)
    /\ UNCHANGED <<cl_callbacks, timingVars>>

\* the trackers of the epoch before kept
CL_on_epoch_begin_no_reset(epoch, logs) ==
    /\ CL_call("on_epoch_begin", epoch, logs,
               Dispatch(cl_callbacks, "on_epoch_begin", epoch, logs), FALSE, FALSE)
    /\ cl_has_timing' = TRUE
    /\ cl_delta_t_batch' = cl_delta_t_batch
    /\ cl_delta_ts_batch_begin' = cl_delta_ts_batch_begin
    /\ cl_delta_ts_batch_end' = cl_delta_ts_batch_end
    /\ cl_begin_durations' = <<>>
    /\ cl_end_durations' = <<>>
    /\ cl_batch_duration' = 0
    /\ UNCHANGED <<cl_callbacks, cl_has_t_enter>>

\* CallbackList.on_epoch_begin
CL_on_epoch_begin(epoch, logs) ==
    /\ CL_call("on_epoch_begin", epoch, logs,
               Dispatch(cl_callbacks, "on_epoch_begin", epoch, logs), FALSE, FALSE)
    /\ cl_has_timing' = TRUE
    /\ cl_delta_t_batch' = 0
    /\ cl_delta_ts_batch_begin' = <<>>
    /\ cl_delta_ts_batch_end' = <<>>
    /\ cl_begin_durations' = <<>>
    /\ cl_end_durations' = <<>>
    /\ cl_batch_duration' = 0
    /\ UNCHANGED <<cl_callbacks, cl_has_t_enter>>

\* CallbackList.on_epoch_end
CL_on_epoch_end(epoch, logs) ==
    /\ CL_call("on_epoch_end", epoch, logs,
               Dispatch(cl_callbacks, "on_epoch_end", epoch, logs), FALSE, FALSE)
    /\ UNCHANGED <<cl_callbacks, timingVars>>

\* CallbackList.on_batch_begin; d is the measured dispatch duration.  Without
\* the deques of on_epoch_begin, line 45 raises after the dispatch.
CL_on_batch_begin(batch, logs, d) ==
    LET calls == Dispatch(cl_callbacks, "on_batch_begin", batch, logs)
        deque == DequeAppend(cl_delta_ts_batch_begin, d, cl_queue_length)
    IN  IF ~cl_has_timing
        THEN /\ CL_call("on_batch_begin", batch, logs, calls, FALSE, TRUE)
             /\ UNCHANGED <<cl_callbacks, timingVars>>
        ELSE /\ CL_call("on_batch_begin", batch, logs, calls,
                        SlowWarning(cl_delta_t_batch, Median2(deque)), FALSE)
             /\ cl_delta_ts_batch_begin' = deque
             /\ cl_has_t_enter' = TRUE
             /\ cl_begin_durations' = Append(cl_begin_durations, d)
             /\ UNCHANGED <<cl_callbacks, cl_has_timing, cl_delta_t_batch,
                            cl_delta_ts_batch_end, cl_end_durations, cl_batch_duration>>

\* _t_enter_batch read after the loop instead of before it
CL_on_batch_end_late(batch, logs, t, d) ==
    LET calls == Dispatch(cl_callbacks, "on_batch_end", batch, logs)
        deque == DequeAppend(cl_delta_ts_batch_end, d, cl_queue_length)
    IN  IF ~cl_has_t_enter
        THEN /\ CL_call("on_batch_end", batch, logs, calls, FALSE, TRUE)
             /\ UNCHANGED <<cl_callbacks, timingVars>>
        ELSE /\ CL_call("on_batch_end", batch, logs, calls,
                        SlowWarning(t, Median2(deque)), FALSE)
             /\ cl_delta_t_batch' = t
             /\ cl_delta_ts_batch_end' = deque
             /\ cl_end_durations' = Append(cl_end_durations, d)
             /\ cl_batch_duration' = t
             /\ UNCHANGED <<cl_callbacks, cl_has_timing, cl_delta_ts_batch_begin,
                            cl_has_t_enter, cl_begin_durations>>

\* CallbackList.on_batch_end; t is the time since _t_enter_batch, d the
\* measured dispatch duration.  Without _t_enter_batch, line 54 raises before
\* the dispatch.
CL_on_batch_end(batch, logs, t, d) ==
    LET calls == Dispatch(cl_callbacks, "on_batch_end", batch, logs)
        deque == DequeAppend(cl_delta_ts_batch_end, d, cl_queue_length)
    IN  IF ~cl_has_t_enter
        THEN /\ CL_call("on_batch_end", batch, logs, <<>>, FALSE, TRUE)
             /\ UNCHANGED <<cl_callbacks, timingVars>>
        ELSE /\ CL_call("on_batch_end", batch, logs, calls,
                        SlowWarning(t, Median2(deque)), FALSE)
             /\ cl_delta_t_batch' = t
             /\ cl_delta_ts_batch_end' = deque
             /\ cl_end_durations' = Append(cl_end_durations, d)
             /\ cl_batch_duration' = t
             /\ UNCHANGED <<cl_callbacks, cl_has_timing, cl_delta_ts_batch_begin,
                            cl_has_t_enter, cl_begin_durations>>

\* ---------------------------------------------------------------- History

\* History before on_train_begin: no attribute but params and model
H_init ==
    /\ h_has_lists = FALSE
    /\ h_epoch = <<>>
    /\ h_loss = <<>>
    /\ h_accuracy = <<>>
    /\ h_validation_loss = <<>>
    /\ h_validation_accuracy = <<>>
    /\ h_has_totals = FALSE
    /\ h_seen = 0
    /\ h_tot_loss = 0
    /\ h_tot_accuracy = 0
    /\ h_batches = <<>>
    /\ h_passed = <<>>

\* what every History call records
H_call(hook, f) ==
    /\ last' = hook
    /\ warned' = FALSE
    /\ failed' = f
    /\ UNCHANGED <<params, modelVars, notH>>

\* History.on_train_begin
H_on_train_begin ==
    /\ H_call("h_on_train_begin", FALSE)
    /\ h_has_lists' = TRUE
    /\ h_epoch' = <<>>
    /\ h_loss' = <<>>
    /\ h_accuracy' = (IF params.show_accuracy THEN <<>> ELSE h_accuracy)
    /\ h_validation_loss' = (IF params.do_validation THEN <<>> ELSE h_validation_loss)
    /\ h_validation_accuracy' =
          (IF params.do_validation /\ params.show_accuracy
           THEN <<>> ELSE h_validation_accuracy)
    /\ h_passed' = <<>>
    /\ UNCHANGED <<h_has_totals, h_seen, h_tot_loss, h_tot_accuracy, h_batches>>

\* the running totals carried over into the next epoch
H_on_epoch_begin_carry ==
    /\ H_call("h_on_epoch_begin", FALSE)
    /\ h_has_totals' = TRUE
    /\ h_batches' = <<>>
    /\ UNCHANGED <<h_has_lists, h_epoch, h_loss, h_accuracy, h_validation_loss,
                   h_validation_accuracy, h_seen, h_tot_loss, h_tot_accuracy, h_passed>>

\* History.on_epoch_begin
H_on_epoch_begin ==
    /\ H_call("h_on_epoch_begin", FALSE)
    /\ h_has_totals' = TRUE
    /\ h_seen' = 0
    /\ h_tot_loss' = 0
    /\ h_tot_accuracy' = 0
    /\ h_batches' = <<>>
    /\ UNCHANGED <<h_has_lists, h_epoch, h_loss, h_accuracy, h_validation_loss,
                   h_validation_accuracy, h_passed>>

\* History.on_batch_end; without the totals of on_epoch_begin line 168 raises
H_on_batch_end(logs) ==
    IF ~h_has_totals
    THEN /\ H_call("h_on_batch_end", TRUE)
         /\ UNCHANGED hVars
    ELSE /\ H_call("h_on_batch_end", FALSE)
         /\ h_seen' = h_seen + logs.size
         /\ h_tot_loss' = h_tot_loss + logs.loss * logs.size
         /\ h_tot_accuracy' =
               (IF params.show_accuracy
                THEN h_tot_accuracy + logs.accuracy * logs.size ELSE h_tot_accuracy)
         /\ h_batches' = Append(h_batches, logs)
         /\ UNCHANGED <<h_has_lists, h_epoch, h_loss, h_accuracy, h_validation_loss,
                        h_validation_accuracy, h_has_totals, h_passed>>

\* validation_loss appended under the show_accuracy test of line 182
H_on_epoch_end_nested(epoch, logs) ==
    IF ~h_has_lists
    THEN /\ H_call("h_on_epoch_end", TRUE)
         /\ h_passed' = Append(h_passed, epoch)
         /\ UNCHANGED <<h_has_lists, h_epoch, h_loss, h_accuracy, h_validation_loss,
                        h_validation_accuracy, h_has_totals, h_seen, h_tot_loss,
                        h_tot_accuracy, h_batches>>
    ELSE IF ~h_has_totals \/ h_seen = 0
    THEN /\ H_call("h_on_epoch_end", TRUE)
         /\ h_passed' = Append(h_passed, epoch)
         /\ h_epoch' = Append(h_epoch, epoch)
         /\ UNCHANGED <<h_has_lists, h_loss, h_accuracy, h_validation_loss,
                        h_validation_accuracy, h_has_totals, h_seen, h_tot_loss,
                        h_tot_accuracy, h_batches>>
    ELSE /\ H_call("h_on_epoch_end", FALSE)
         /\ h_passed' = Append(h_passed, epoch)
         /\ h_epoch' = Append(h_epoch, epoch)
         /\ h_loss' = Append(h_loss, <<h_tot_loss, h_seen>>)
         /\ h_accuracy' =
               (IF params.show_accuracy
                THEN Append(h_accuracy, <<h_tot_accuracy, h_seen>>) ELSE h_accuracy)
         /\ h_validation_loss' =
               (IF params.do_validation /\ params.show_accuracy
                THEN Append(h_validation_loss, logs.val_loss) ELSE h_validation_loss)
         /\ h_validation_accuracy' =
               (IF params.do_validation /\ params.show_accuracy
                THEN Append(h_validation_accuracy, logs.val_accuracy)
                ELSE h_validation_accuracy)
         /\ UNCHANGED <<h_has_lists, h_has_totals, h_seen, h_tot_loss, h_tot_accuracy,
                        h_batches>>

\* History.on_epoch_end.  Line 176 raises without the lists of on_train_begin;
\* line 177 raises, the epoch already appended, without the totals of
\* on_epoch_begin or with seen = 0.
H_on_epoch_end(epoch, logs) ==
    IF ~h_has_lists
    THEN /\ H_call("h_on_epoch_end", TRUE)
         /\ h_passed' = Append(h_passed, epoch)
         /\ UNCHANGED <<h_has_lists, h_epoch, h_loss, h_accuracy, h_validation_loss,
                        h_validation_accuracy, h_has_totals, h_seen, h_tot_loss,
                        h_tot_accuracy, h_batches>>
    ELSE IF ~h_has_totals \/ h_seen = 0
    THEN /\ H_call("h_on_epoch_end", TRUE)
         /\ h_passed' = Append(h_passed, epoch)
         /\ h_epoch' = Append(h_epoch, epoch)
         /\ UNCHANGED <<h_has_lists, h_loss, h_accuracy, h_validation_loss,
                        h_validation_accuracy, h_has_totals, h_seen, h_tot_loss,
                        h_tot_accuracy, h_batches>>
    ELSE /\ H_call("h_on_epoch_end", FALSE)
         /\ h_passed' = Append(h_passed, epoch)
         /\ h_epoch' = Append(h_epoch, epoch)
         /\ h_loss' = Append(h_loss, <<h_tot_loss, h_seen>>)
         /\ h_accuracy' =
               (IF params.show_accuracy
                THEN Append(h_accuracy, <<h_tot_accuracy, h_seen>>) ELSE h_accuracy)
         /\ h_validation_loss' =
               (IF params.do_validation
                THEN Append(h_validation_loss, logs.val_loss) ELSE h_validation_loss)
         /\ h_validation_accuracy' =
               (IF params.do_validation /\ params.show_accuracy
                THEN Append(h_validation_accuracy, logs.val_accuracy)
                ELSE h_validation_accuracy)
         /\ UNCHANGED <<h_has_lists, h_has_totals, h_seen, h_tot_loss, h_tot_accuracy,
                        h_batches>>

\* the hooks History inherits from Callback: no-ops
H_inherited_hook(name) ==
    /\ H_call(name, FALSE)
    /\ UNCHANGED hVars

\* -------------------------------------------------------------- BaseLogger

\* BaseLogger before on_train_begin: no attribute but params and model
BL_init ==
    /\ bl_has_verbose = FALSE
    /\ bl_verbose = 0
    /\ bl_has_progbar = FALSE
    /\ bl_has_totals = FALSE
    /\ bl_current = 0
    /\ bl_tot_loss = 0
    /\ bl_tot_acc = 0
    /\ bl_has_log_values = FALSE
    /\ bl_log_values = <<>>
    /\ bl_updates = <<>>
    /\ bl_batch_begun = FALSE

\* what every BaseLogger call records
BL_call(hook, f, updates) ==
    /\ last' = hook
    /\ warned' = FALSE
    /\ failed' = f
    /\ bl_updates' = updates
    /\ bl_batch_begun' =
          CASE hook = "bl_on_batch_begin" -> TRUE
            [] hook \in {"bl_on_epoch_begin", "bl_on_epoch_end"} -> FALSE
            [] OTHER -> bl_batch_begun
    /\ UNCHANGED <<params, modelVars, notBL>>

\* BaseLogger.on_train_begin
BL_on_train_begin ==
    /\ BL_call("bl_on_train_begin", FALSE, <<>>)
    /\ bl_has_verbose' = TRUE
    /\ bl_verbose' = params.verbose
    /\ UNCHANGED <<bl_has_progbar, bl_has_totals, bl_current, bl_tot_loss, bl_tot_acc,
                   bl_has_log_values, bl_log_values>>

\* BaseLogger.on_epoch_begin; line 109 raises without self.verbose
BL_on_epoch_begin ==
    IF ~bl_has_verbose
    THEN /\ BL_call("bl_on_epoch_begin", TRUE, <<>>)
         /\ UNCHANGED <<bl_has_verbose, bl_verbose, bl_has_progbar, bl_has_totals,
                        bl_current, bl_tot_loss, bl_tot_acc, bl_has_log_values,
                        bl_log_values>>
    ELSE /\ BL_call("bl_on_epoch_begin", FALSE, <<>>)
         /\ bl_has_progbar' = (bl_has_progbar \/ bl_verbose # 0)
         /\ bl_has_totals' = TRUE
         /\ bl_current' = 0
         /\ bl_tot_loss' = 0
         /\ bl_tot_acc' = 0
         /\ UNCHANGED <<bl_has_verbose, bl_verbose, bl_has_log_values, bl_log_values>>

\* BaseLogger.on_batch_begin; line 118 raises without self.current
BL_on_batch_begin ==
    IF ~bl_has_totals
    THEN /\ BL_call("bl_on_batch_begin", TRUE, <<>>)
         /\ UNCHANGED <<bl_has_verbose, bl_verbose, bl_has_progbar, bl_has_totals,
                        bl_current, bl_tot_loss, bl_tot_acc, bl_has_log_values,
                        bl_log_values>>
    ELSE /\ BL_call("bl_on_batch_begin", FALSE, <<>>)
         /\ IF bl_current < params.nb_sample
            THEN bl_has_log_values' = TRUE /\ bl_log_values' = <<>>
            ELSE UNCHANGED <<bl_has_log_values, bl_log_values>>
         /\ UNCHANGED <<bl_has_verbose, bl_verbose, bl_has_progbar, bl_has_totals,
                        bl_current, bl_tot_loss, bl_tot_acc>>

\* the entries on_batch_end appends to log_values
BatchEntries(logs) ==
    <<<<"loss", <<logs.loss, 1>>>>>> \o
    (IF params.show_accuracy THEN <<<<"acc.", <<logs.accuracy, 1>>>>>> ELSE <<>>)

\* BaseLogger.on_batch_end.  Line 123 raises without self.current, line 126,
\* current already advanced, without self.log_values, and line 134, all
\* totals advanced, without self.progbar.
BL_on_batch_end(logs) ==
    LET current == bl_current + logs.size
        values == bl_log_values \o BatchEntries(logs)
        shows == bl_verbose # 0 /\ current < params.nb_sample
    IN  IF ~bl_has_totals
        THEN /\ BL_call("bl_on_batch_end", TRUE, <<>>)
             /\ UNCHANGED <<bl_has_verbose, bl_verbose, bl_has_progbar, bl_has_totals,
                            bl_current, bl_tot_loss, bl_tot_acc, bl_has_log_values,
                            bl_log_values>>
        ELSE IF ~bl_has_log_values
        THEN /\ BL_call("bl_on_batch_end", TRUE, <<>>)
             /\ bl_current' = current
             /\ UNCHANGED <<bl_has_verbose, bl_verbose, bl_has_progbar, bl_has_totals,
                            bl_tot_loss, bl_tot_acc, bl_has_log_values, bl_log_values>>
        ELSE /\ BL_call("bl_on_batch_end", shows /\ ~bl_has_progbar,
                        IF shows /\ bl_has_progbar
                        THEN <<[current |-> current, values |-> values]>> ELSE <<>>)
             /\ bl_current' = current
             /\ bl_log_values' = values
             /\ bl_tot_loss' = bl_tot_loss + logs.loss * logs.size
             /\ bl_tot_acc' =
                   (IF params.show_accuracy
                    THEN bl_tot_acc + logs.accuracy * logs.size ELSE bl_tot_acc)
             /\ UNCHANGED <<bl_has_verbose, bl_verbose, bl_has_progbar, bl_has_totals,
                            bl_has_log_values>>

\* the validation entries appended whatever params['do_validation'] says
EpochEntries_always_val(logs) ==
    <<<<"loss", <<bl_tot_loss, bl_current>>>>>> \o
    (IF params.show_accuracy THEN <<<<"acc.", <<bl_tot_acc, bl_current>>>>>> ELSE <<>>) \o
    <<<<"val. loss", <<logs.val_loss, 1>>>>>> \o
    (IF params.show_accuracy
     THEN <<<<"val. acc.", <<logs.val_accuracy, 1>>>>>> ELSE <<>>)

\* the entries on_epoch_end appends to log_values
EpochEntries(logs) ==
    <<<<"loss", <<bl_tot_loss, bl_current>>>>>> \o
    (IF params.show_accuracy THEN <<<<"acc.", <<bl_tot_acc, bl_current>>>>>> ELSE <<>>) \o
    (IF params.do_validation
     THEN <<<<"val. loss", <<logs.val_loss, 1>>>>>> \o
          (IF params.show_accuracy
           THEN <<<<"val. acc.", <<logs.val_accuracy, 1>>>>>> ELSE <<>>)
     ELSE <<>>)

\* BaseLogger.on_epoch_end.  Line 137 raises without self.log_values or with
\* current = 0; line 146, the entries already appended, without self.progbar.
BL_on_epoch_end(logs) ==
    LET values == bl_log_values \o EpochEntries(logs)
    IN  IF ~bl_has_log_values \/ ~bl_has_totals \/ bl_current = 0
        THEN /\ BL_call("bl_on_epoch_end", TRUE, <<>>)
             /\ UNCHANGED <<bl_has_verbose, bl_verbose, bl_has_progbar, bl_has_totals,
                            bl_current, bl_tot_loss, bl_tot_acc, bl_has_log_values,
                            bl_log_values>>
        ELSE /\ BL_call("bl_on_epoch_end", ~bl_has_progbar,
                        IF bl_has_progbar
                        THEN <<[current |-> bl_current, values |-> values]>> ELSE <<>>)
             /\ bl_log_values' = values
             /\ UNCHANGED <<bl_has_verbose, bl_verbose, bl_has_progbar, bl_has_totals,
                            bl_current, bl_tot_loss, bl_tot_acc, bl_has_log_values>>

\* BaseLogger.on_train_end, inherited from Callback: a no-op
BL_on_train_end ==
    /\ BL_call("bl_on_train_end", FALSE, <<>>)
    /\ UNCHANGED <<bl_has_verbose, bl_verbose, bl_has_progbar, bl_has_totals,
                   bl_current, bl_tot_loss, bl_tot_acc, bl_has_log_values, bl_log_values>>

\* ----------------------------------------------------------- RemoteMonitor

\* RemoteMonitor.__init__
RM_init ==
    /\ rm_seen = 0
    /\ rm_tot_loss = 0
    /\ rm_tot_accuracy = 0

\* no loop of a CallbackList method is running
D_init ==
    /\ d_hook = "none"
    /\ d_pos = 0
    /\ d_index = NoIndex
    /\ d_logs = <<>>
    /\ d_supplied = <<>>
    /\ d_seen = <<>>
    /\ d_run_start = NoIndex

\* logs[key] = value on a mapping: the key added or overwritten
With(logs, key, value) ==
    [k \in (DOMAIN logs) \cup {key} |-> IF k = key THEN value ELSE logs[k]]

\* logs.get(key, default)
Get(logs, key, default) == IF key \in DOMAIN logs THEN logs[key] ELSE default

notRM == <<esVars, mcVars, clVars, hVars, blVars>>

\* what every RemoteMonitor call records
RM_call(hook, f) ==
    /\ last' = hook
    /\ warned' = FALSE
    /\ failed' = f
    /\ UNCHANGED <<params, modelVars, notRM>>

\* RemoteMonitor.on_epoch_begin
RM_on_epoch_begin ==
    /\ RM_call("rm_on_epoch_begin", FALSE)
    /\ rm_seen' = 0
    /\ rm_tot_loss' = 0
    /\ rm_tot_accuracy' = 0
    /\ UNCHANGED d_logs

\* RemoteMonitor.on_batch_end
RM_on_batch_end(logs) ==
    LET batch_size == Get(logs, "size", 0)
    IN  /\ RM_call("rm_on_batch_end", FALSE)
        /\ rm_seen' = rm_seen + batch_size
        /\ rm_tot_loss' = rm_tot_loss + Get(logs, "loss", 0) * batch_size
        /\ rm_tot_accuracy' =
              (IF params.show_accuracy
               THEN rm_tot_accuracy + Get(logs, "accuracy", 0) * batch_size
               ELSE rm_tot_accuracy)
        /\ UNCHANGED d_logs

\* RemoteMonitor.on_epoch_end: lines 299-300 write 'epoch' and 'loss' into the
\* logs object it was handed; line 300 raises, 'epoch' already written, with
\* seen = 0; posted tells whether requests.post (line 301) returned or raised
RM_on_epoch_end(epoch, logs, posted) ==
    LET with_epoch == With(logs, "epoch", epoch)
    IN  IF rm_seen = 0
        THEN /\ RM_call("rm_on_epoch_end", TRUE)
             /\ d_logs' = with_epoch
             /\ UNCHANGED rmVars
        ELSE /\ RM_call("rm_on_epoch_end", ~posted)
             /\ d_logs' = With(with_epoch, "loss", <<rm_tot_loss, rm_seen>>)
             /\ UNCHANGED rmVars

\* the hooks RemoteMonitor inherits from Callback: no-ops
RM_inherited_hook(name) ==
    /\ RM_call(name, FALSE)
    /\ UNCHANGED <<d_logs, rmVars>>

\* ---------------------------------------------------------- specifications
\* A raise is not caught by any hook: it ends the run, so no specification
\* takes a step from a state whose last call raised.

\* what no call has touched yet
CallInit ==
    /\ last = "init"
    /\ warned = FALSE
    /\ failed = FALSE
    /\ fed = <<>>
    /\ saved = <<>>
    /\ stop_training = FALSE

\* an EarlyStopping(patience) wired to params and a model
InitES ==
    /\ params \in Params
    /\ CallInit
    /\ \E p \in 0..MaxPatience : ES_init(p)
    /\ MC_init(FALSE)
    /\ CL_init(<<>>, QueueLength)
    /\ H_init
    /\ BL_init
    /\ RM_init
    /\ D_init

ES_step ==
    /\ Len(fed) < MaxEpochs
    /\ \E l \in Losses : ES_on_epoch_end(l)
    /\ UNCHANGED mixVars

ES_other ==
    /\ \E h \in InheritedHooks : ES_inherited_hook(h)
    /\ UNCHANGED mixVars

NextES ==
    \/ ES_step
    \/ ES_other

SpecES == InitES /\ [][NextES]_vars

\* a ModelCheckpoint(filepath, save_best_only) wired to params and a model
InitMC ==
    /\ params \in Params
    /\ CallInit
    /\ ES_init(0)
    /\ \E b \in BOOLEAN : MC_init(b)
    /\ CL_init(<<>>, QueueLength)
    /\ H_init
    /\ BL_init
    /\ RM_init
    /\ D_init

MC_step ==
    /\ Len(fed) < MaxEpochs
    /\ \E l \in Losses : MC_on_epoch_end(l)
    /\ UNCHANGED mixVars

MC_other ==
    /\ \E h \in InheritedHooks : MC_inherited_hook(h)
    /\ UNCHANGED mixVars

NextMC ==
    \/ MC_step
    \/ MC_other

SpecMC == InitMC /\ [][NextMC]_vars

\* a CallbackList(callbacks, queue_length) of plain Callback instances
Init ==
    /\ params \in {p \in Params : p.verbose = 0 /\ ~p.show_accuracy /\ ~p.do_validation}
    /\ CallInit
    /\ ES_init(0)
    /\ MC_init(FALSE)
    /\ \E cbs \in {<<>>} \cup {<<c>> : c \in CallbackIds} : CL_init(cbs, QueueLength)
    /\ H_init
    /\ BL_init
    /\ RM_init
    /\ D_init

Append_ ==
    /\ ~failed
    /\ Len(cl_callbacks) < MaxCallbacks
    /\ \E c \in CallbackIds : CL_append(c)
    /\ UNCHANGED mixVars

SetParams ==
    /\ ~failed
    /\ \E p \in Args : CL_set_params(p)
    /\ UNCHANGED mixVars

SetModel ==
    /\ ~failed
    /\ \E m \in Args : CL_set_model(m)
    /\ UNCHANGED mixVars

TrainBegin ==
    /\ ~failed
    /\ \E l \in Args : CL_on_train_begin(l)
    /\ UNCHANGED mixVars

TrainEnd ==
    /\ ~failed
    /\ \E l \in Args : CL_on_train_end(l)
    /\ UNCHANGED mixVars

EpochBegin ==
    /\ ~failed
    /\ \E e \in Indices, l \in Args : CL_on_epoch_begin(e, l)
    /\ UNCHANGED mixVars

EpochEnd ==
    /\ ~failed
    /\ \E e \in Indices, l \in Args : CL_on_epoch_end(e, l)
    /\ UNCHANGED mixVars

BatchBegin ==
    /\ ~failed
    /\ Len(cl_begin_durations) < MaxBatches
    /\ \E b \in Indices, l \in Args, d \in DispatchDurations : CL_on_batch_begin(b, l, d)
    /\ UNCHANGED mixVars

BatchEnd ==
    /\ ~failed
    /\ Len(cl_end_durations) < MaxBatches
    /\ \E b \in Indices, l \in Args, t \in BatchDurations, d \in DispatchDurations :
          CL_on_batch_end(b, l, t, d)
    /\ UNCHANGED mixVars

Next ==
    \/ Append_
    \/ SetParams
    \/ SetModel
    \/ TrainBegin
    \/ TrainEnd
    \/ EpochBegin
    \/ EpochEnd
    \/ BatchBegin
    \/ BatchEnd

Spec == Init /\ [][Next]_vars

\* a History wired to params and a model
InitH ==
    /\ params \in {p \in Params : p.verbose = 0}
    /\ CallInit
    /\ ES_init(0)
    /\ MC_init(FALSE)
    /\ CL_init(<<>>, QueueLength)
    /\ H_init
    /\ BL_init
    /\ RM_init
    /\ D_init

H_train_begin == ~failed /\ H_on_train_begin /\ UNCHANGED mixVars

H_epoch_begin == ~failed /\ H_on_epoch_begin /\ UNCHANGED mixVars

H_batch ==
    /\ ~failed
    /\ Len(h_batches) < MaxHistBatches
    /\ \E l \in BatchLogs : H_on_batch_end(l)
    /\ UNCHANGED mixVars

H_epoch_end ==
    /\ ~failed
    /\ Len(h_epoch) < MaxHistEpochs
    /\ \E e \in Indices :
          \E l \in {x \in EpochLogs : x.val_accuracy = e} : H_on_epoch_end(e, l)
    /\ UNCHANGED mixVars

H_other == ~failed /\ H_inherited_hook("on_batch_begin") /\ UNCHANGED mixVars

NextH ==
    \/ H_train_begin
    \/ H_epoch_begin
    \/ H_batch
    \/ H_epoch_end
    \/ H_other

SpecH == InitH /\ [][NextH]_vars

\* a BaseLogger wired to params and a model
InitBL ==
    /\ params \in Params
    /\ CallInit
    /\ ES_init(0)
    /\ MC_init(FALSE)
    /\ CL_init(<<>>, QueueLength)
    /\ H_init
    /\ BL_init
    /\ RM_init
    /\ D_init

BL_train_begin == ~failed /\ BL_on_train_begin /\ UNCHANGED mixVars

BL_epoch_begin == ~failed /\ BL_on_epoch_begin /\ UNCHANGED mixVars

BL_batch_begin == ~failed /\ BL_on_batch_begin /\ UNCHANGED mixVars

BL_train_end == ~failed /\ BL_on_train_end /\ UNCHANGED mixVars

BL_batch ==
    /\ ~failed
    /\ Len(bl_log_values) < MaxLogValues
    /\ bl_current < MaxCurrent
    /\ \E l \in BatchLogs : BL_on_batch_end(l)
    /\ UNCHANGED mixVars

BL_epoch_end ==
    /\ ~failed
    /\ Len(bl_log_values) < MaxLogValues
    /\ \E l \in EpochLogs : BL_on_epoch_end(l)
    /\ UNCHANGED mixVars

NextBL ==
    \/ BL_train_begin
    \/ BL_epoch_begin
    \/ BL_batch_begin
    \/ BL_batch
    \/ BL_epoch_end
    \/ BL_train_end

SpecBL == InitBL /\ [][NextBL]_vars

\* A CallbackList of RemoteMonitor, EarlyStopping and ModelCheckpoint
\* instances.  The loop `for callback in self.callbacks` runs one hook per
\* step over one logs object; what a CallbackList method does around its
\* loop is done by the step that returns from it.
MixKinds == {"RemoteMonitor", "EarlyStopping", "ModelCheckpoint"}

MixLists ==
    {<<k>> : k \in MixKinds} \cup
    {c \in {<<j, k>> : j, k \in MixKinds} : c[1] # c[2]}

\* the logs of an epoch end and of a batch end, as mappings
MixEpochLogs == {[val_loss |-> l] : l \in {4, 5}}
MixBatchLogs == {[size |-> 1, loss |-> 4, accuracy |-> 0], [size |-> 2, loss |-> 10]}

MixLogs(hook) ==
    CASE hook = "on_epoch_end" -> MixEpochLogs
      [] hook = "on_batch_end" -> MixBatchLogs
      [] OTHER -> {<<>>}

MixHooks ==
    {"on_train_begin", "on_train_end", "on_epoch_begin", "on_epoch_end",
     "on_batch_begin", "on_batch_end"}

InitMix ==
    /\ params \in {p \in Params : p.verbose = 0 /\ ~p.show_accuracy}
    /\ CallInit
    /\ \E p \in 0..1 : ES_init(p)
    /\ \E b \in BOOLEAN : MC_init(b)
    /\ \E cbs \in MixLists : CL_init(cbs, QueueLength)
    /\ H_init
    /\ BL_init
    /\ RM_init
    /\ D_init

\* the training loop calls a CallbackList method, which enters its loop;
\* on_batch_end raises before it (line 54) when no on_batch_begin has completed
LoopEnter ==
    /\ ~failed
    /\ d_hook = "none"
    /\ \E hook \in MixHooks, index \in {0} : \E logs \in MixLogs(hook) :
          /\ hook = "on_epoch_end" => Len(fed) < MaxMixFed
          /\ hook = "on_batch_begin" => Len(cl_begin_durations) < MaxBatches
          /\ hook = "on_batch_end" =>
                (Len(cl_end_durations) < MaxBatches /\ rm_seen < MaxSeen)
          /\ IF hook = "on_batch_end" /\ ~cl_has_t_enter
             THEN /\ CL_on_batch_end(index, logs, 1, 0)
                  /\ UNCHANGED mixVars
             ELSE /\ d_hook' = hook
                  /\ d_pos' = 1
                  /\ d_index' = index
                  /\ d_logs' = logs
                  /\ d_supplied' = logs
                  /\ d_seen' = <<>>
                  /\ d_run_start' =
                        (IF hook = "on_train_begin" THEN Len(fed) ELSE d_run_start)
                  /\ last' = "enter"
                  /\ warned' = FALSE
                  /\ failed' = FALSE
                  /\ UNCHANGED <<params, modelVars, esVars, mcVars, clVars, hVars,
                                 blVars, rmVars>>

\* the loop is at a callback of class kind
LoopAt(kind) ==
    /\ ~failed
    /\ d_hook # "none"
    /\ d_pos <= Len(cl_callbacks)
    /\ cl_callbacks[d_pos] = kind

\* the loop goes on to the next callback
LoopAdvance ==
    /\ d_pos' = d_pos + 1
    /\ d_seen' = Append(d_seen, d_logs)
    /\ UNCHANGED <<d_hook, d_index, d_supplied, d_run_start>>

LoopCallES ==
    /\ LoopAt("EarlyStopping")
    /\ IF d_hook = "on_epoch_end"
       THEN ES_on_epoch_end(Get(d_logs, "val_loss", Inf))
       ELSE ES_inherited_hook(d_hook)
    /\ LoopAdvance
    /\ UNCHANGED <<d_logs, rmVars>>

LoopCallMC ==
    /\ LoopAt("ModelCheckpoint")
    /\ IF d_hook = "on_epoch_end"
       THEN MC_on_epoch_end(Get(d_logs, "val_loss", Inf))
       ELSE MC_inherited_hook(d_hook)
    /\ LoopAdvance
    /\ UNCHANGED <<d_logs, rmVars>>

LoopCallRM ==
    /\ LoopAt("RemoteMonitor")
    /\ CASE d_hook = "on_epoch_begin" -> RM_on_epoch_begin
         [] d_hook = "on_batch_end" -> RM_on_batch_end(d_logs)
         [] d_hook = "on_epoch_end" ->
               \E posted \in BOOLEAN : RM_on_epoch_end(d_index, d_logs, posted)
         [] OTHER -> RM_inherited_hook(d_hook)
    /\ LoopAdvance

\* the loop is over: the method does what follows its loop and returns
LoopReturn ==
    /\ ~failed
    /\ d_hook # "none"
    /\ d_pos > Len(cl_callbacks)
    /\ CASE d_hook = "on_train_begin" -> CL_on_train_begin(d_supplied)
         [] d_hook = "on_train_end" -> CL_on_train_end(d_supplied)
         [] d_hook = "on_epoch_begin" -> CL_on_epoch_begin(d_index, d_supplied)
         [] d_hook = "on_epoch_end" -> CL_on_epoch_end(d_index, d_supplied)
         [] d_hook = "on_batch_begin" -> CL_on_batch_begin(d_index, d_supplied, 0)
         [] d_hook = "on_batch_end" -> CL_on_batch_end(d_index, d_supplied, 1, 0)
    /\ d_hook' = "none"
    /\ UNCHANGED <<d_pos, d_index, d_logs, d_supplied, d_seen, d_run_start, rmVars>>

NextMix ==
    \/ LoopEnter
    \/ LoopCallES
    \/ LoopCallMC
    \/ LoopCallRM
    \/ LoopReturn

SpecMix == InitMix /\ [][NextMix]_vars

\* -------------------------------------------------- claims on CallbackList

EventHooks ==
    {"_set_params", "_set_model", "on_train_begin", "on_train_end", "on_epoch_begin",
     "on_epoch_end", "on_batch_begin", "on_batch_end"}

\* the last call invoked its hook on every registered callback once, in
\* registration order, with the arguments it was given
DispatchedToAll ==
    /\ Len(cl_calls) = Len(cl_callbacks)
    /\ \A k \in 1..Len(cl_calls) :
          /\ cl_calls[k].cb = cl_callbacks[k]
          /\ cl_calls[k].hook = last
          /\ cl_calls[k].index = cl_index
          /\ cl_calls[k].arg = cl_arg

\* C3 as stated: every call of an event on the CallbackList invokes the same
\* hook on every registered callback exactly once, in registration order,
\* with the same index and logs.
C3_AsStated == (last \in EventHooks) => DispatchedToAll

\* C3, amended: the same, except that an on_batch_end called before any
\* on_batch_begin has completed (one called after an on_epoch_begin) raises
\* without invoking any callback.
C3_DispatchOrder ==
    (last \in EventHooks) =>
        IF last = "on_batch_end" /\ ~cl_batch_begun
        THEN cl_calls = <<>> /\ failed
        ELSE DispatchedToAll

C3_Witness ==
    /\ last = "on_batch_end"
    /\ ~failed
    /\ cl_callbacks = <<2, 1>>
    /\ cl_index = 1
    /\ cl_arg = 1
    /\ Len(cl_calls) = 2
    /\ cl_calls[1].cb = 2
    /\ cl_calls[2].cb = 1

\* the last n entries of s, all of s when it is shorter
LastN(s, n) ==
    IF Len(s) <= n THEN s ELSE SubSeq(s, Len(s) - n + 1, Len(s))

\* the durations of the event called last that its deque is to hold
RecentDurations ==
    LastN(IF last = "on_batch_begin" THEN cl_begin_durations ELSE cl_end_durations,
          cl_queue_length)

\* C4: on_batch_begin and on_batch_end warn if and only if the last
\* batch-processing duration is positive and the median of the event's last
\* <= queue_length dispatch durations of this epoch exceeds both 0.95 times
\* that duration and 0.1 s (2 units; the formula works on twice the median).
\* The duration is the one on_batch_end just measured, and for on_batch_begin
\* the one the previous on_batch_end left, 0 after on_epoch_begin.  A call
\* that raises warns nothing.
C4_SlowWarning ==
    (last \in {"on_batch_begin", "on_batch_end"}) =>
        IF failed THEN ~warned
        ELSE warned <=>
                /\ cl_batch_duration > 0
                /\ 10 * Median2(RecentDurations) > 19 * cl_batch_duration
                /\ Median2(RecentDurations) > 4

C4_Witness ==
    /\ last = "on_batch_end"
    /\ warned
    /\ cl_batch_duration = 1
    /\ cl_end_durations = <<0, 3, 3>>
    /\ cl_delta_ts_batch_end = <<3, 3>>

\* what C10 says of on_epoch_begin and of the deques
EpochBeginResets ==
    /\ (last = "on_epoch_begin") =>
          /\ DispatchedToAll
          /\ cl_delta_ts_batch_begin = <<>>
          /\ cl_delta_ts_batch_end = <<>>
          /\ cl_delta_t_batch = 0
    /\ cl_has_timing =>
          /\ cl_delta_ts_batch_begin = LastN(cl_begin_durations, cl_queue_length)
          /\ cl_delta_ts_batch_end = LastN(cl_end_durations, cl_queue_length)

\* C10 as stated: on_epoch_begin dispatches and leaves both deques empty and
\* the batch duration 0, no deque holds a duration of an earlier epoch, and
\* the first on_batch_begin of an epoch never warns.
C10_AsStated ==
    /\ EpochBeginResets
    /\ (last = "on_batch_begin" /\ ~failed /\ Len(cl_begin_durations) = 1) => ~warned

\* C10, amended: the same, the first on_batch_begin of an epoch never warning
\* when no on_batch_end has been called since that epoch's on_epoch_begin.
C10_EpochReset ==
    /\ EpochBeginResets
    /\ (/\ last = "on_batch_begin"
        /\ ~failed
        /\ Len(cl_begin_durations) = 1
        /\ Len(cl_end_durations) = 0) => ~warned

C10_Witness ==
    /\ last = "on_batch_begin"
    /\ ~failed
    /\ ~warned
    /\ cl_batch_begun
    /\ cl_index = 0
    /\ cl_begin_durations = <<3>>
    /\ cl_delta_ts_batch_begin = <<3>>
    /\ cl_end_durations = <<>>
    /\ cl_delta_t_batch = 0

\* both deques hold at most queue_length entries: the latest durations of
\* their own event since on_epoch_begin, in arrival order
BuffersHoldRecent ==
    cl_has_timing =>
        /\ Len(cl_delta_ts_batch_begin) <= cl_queue_length
        /\ Len(cl_delta_ts_batch_end) <= cl_queue_length
        /\ cl_delta_ts_batch_begin = LastN(cl_begin_durations, cl_queue_length)
        /\ cl_delta_ts_batch_end = LastN(cl_end_durations, cl_queue_length)

\* an on_batch_begin after on_epoch_begin puts its duration at the end of
\* the batch-begin deque, the oldest entry leaving a full one, and leaves
\* the batch-end deque alone
BatchBeginAppendsOne ==
    (cl_has_timing /\ last' = "on_batch_begin") =>
        /\ ~failed'
        /\ Len(cl_begin_durations') = Len(cl_begin_durations) + 1
        /\ cl_delta_ts_batch_begin' =
              LastN(cl_delta_ts_batch_begin \o
                        <<cl_begin_durations'[Len(cl_begin_durations')]>>,
                    cl_queue_length)
        /\ cl_delta_ts_batch_end' = cl_delta_ts_batch_end
        /\ cl_end_durations' = cl_end_durations

\* an on_batch_end that returns does the converse; one that raises (line 54,
\* no on_batch_begin has completed) leaves both deques alone
BatchEndAppendsOne ==
    (cl_has_timing /\ last' = "on_batch_end") =>
        IF failed'
        THEN /\ ~cl_has_t_enter
             /\ cl_delta_ts_batch_begin' = cl_delta_ts_batch_begin
             /\ cl_delta_ts_batch_end' = cl_delta_ts_batch_end
        ELSE /\ Len(cl_end_durations') = Len(cl_end_durations) + 1
             /\ cl_delta_ts_batch_end' =
                   LastN(cl_delta_ts_batch_end \o
                             <<cl_end_durations'[Len(cl_end_durations')]>>,
                         cl_queue_length)
             /\ cl_delta_ts_batch_begin' = cl_delta_ts_batch_begin
             /\ cl_begin_durations' = cl_begin_durations

C18_EventOrder ==
    /\ cl_has_timing <=> cl_epoch_begun
    /\ cl_has_t_enter <=> cl_batch_begun
    /\ failed <=>
          \/ last = "on_batch_begin" /\ ~cl_epoch_begun
          \/ last = "on_batch_end" /\ ~cl_batch_begun
    /\ (failed /\ last = "on_batch_begin") => DispatchedToAll
    /\ (failed /\ last = "on_batch_end") => cl_calls = <<>>

C18_Witness ==
    /\ last = "on_batch_begin"
    /\ failed
    /\ ~cl_epoch_begun
    /\ cl_callbacks = <<1, 2>>
    /\ Len(cl_calls) = 2
    /\ cl_calls[2].cb = 2

\* an on_batch_end that raised before its loop, callbacks registered
C18_BatchEndWitness ==
    /\ last = "on_batch_end"
    /\ failed
    /\ cl_epoch_begun
    /\ cl_callbacks = <<1, 2>>
    /\ cl_calls = <<>>

\* -------------------------------------------------------- claims on History

RECURSIVE TotalSize(_)
TotalSize(b) == IF b = <<>> THEN 0 ELSE Head(b).size + TotalSize(Tail(b))

RECURSIVE LossTimesSize(_)
LossTimesSize(b) ==
    IF b = <<>> THEN 0 ELSE Head(b).loss * Head(b).size + LossTimesSize(Tail(b))

RECURSIVE AccuracyTimesSize(_)
AccuracyTimesSize(b) ==
    IF b = <<>> THEN 0 ELSE Head(b).accuracy * Head(b).size + AccuracyTimesSize(Tail(b))

\* the quotients q[1] / q[2] and num / den are the same number
SameQuotient(q, num, den) == q[2] # 0 /\ den # 0 /\ q[1] * den = num * q[2]

\* C5: an on_epoch_end of an epoch whose batch sizes sum to a positive total
\* appends to History.loss the sum of loss * size over the sum of size, taken
\* over the batches reported since that epoch's on_epoch_begin and no earlier
\* ones, and does the same for accuracy under show_accuracy.  (The entry is
\* the one that call appends; it raises only on a zero total.)
C5_WeightedAverage ==
    (last = "h_on_epoch_end" /\ h_has_lists /\ h_has_totals) =>
        /\ failed <=> TotalSize(h_batches) = 0
        /\ ~failed =>
              /\ h_loss # <<>>
              /\ SameQuotient(h_loss[Len(h_loss)], LossTimesSize(h_batches),
                              TotalSize(h_batches))
              /\ params.show_accuracy =>
                    /\ h_accuracy # <<>>
                    /\ SameQuotient(h_accuracy[Len(h_accuracy)],
                                    AccuracyTimesSize(h_batches), TotalSize(h_batches))

C5_Witness ==
    /\ last = "h_on_epoch_end"
    /\ ~failed
    /\ params.show_accuracy
    /\ h_batches = <<[size |-> 1, loss |-> 4, accuracy |-> 0],
                     [size |-> 2, loss |-> 10, accuracy |-> 1]>>
    /\ h_loss = <<<<4, 1>>, <<24, 3>>>>
    /\ h_accuracy = <<<<0, 1>>, <<2, 3>>>>

\* s is an initial part of t
IsPrefix(s, t) == Len(s) <= Len(t) /\ SubSeq(t, 1, Len(s)) = s

\* after on_train_begin, while no call has raised, epoch and loss have one
\* entry per on_epoch_end call, epoch holds the indices passed in call
\* order, and accuracy and the validation lists, where configured, are as long
HistoryAligned ==
    (h_has_lists /\ ~failed) =>
        /\ Len(h_epoch) = Len(h_passed)
        /\ Len(h_loss) = Len(h_passed)
        /\ h_epoch = h_passed
        /\ params.show_accuracy => Len(h_accuracy) = Len(h_epoch)
        /\ params.do_validation => Len(h_validation_loss) = Len(h_epoch)
        /\ (params.do_validation /\ params.show_accuracy) =>
              Len(h_validation_accuracy) = Len(h_epoch)

\* no batch or epoch event modifies or removes an entry appended before
HistoryGrows ==
    (last' # "h_on_train_begin") =>
        /\ IsPrefix(h_epoch, h_epoch')
        /\ IsPrefix(h_loss, h_loss')
        /\ IsPrefix(h_accuracy, h_accuracy')
        /\ IsPrefix(h_validation_loss, h_validation_loss')
        /\ IsPrefix(h_validation_accuracy, h_validation_accuracy')

\* C14: after on_train_begin and any number of completed epochs, each of a
\* positive total batch size, len(epoch) = len(loss) = the number of
\* on_epoch_end calls since on_train_begin, epoch[k] is the index passed to
\* the k-th call, validation_loss (under do_validation) and accuracy (under
\* show_accuracy) have that length, and no batch or epoch event modifies or
\* removes an entry appended before.
C14_GrowthOnly ==
    /\ []HistoryAligned
    /\ [][HistoryGrows]_vars

C14_Witness ==
    /\ last = "h_on_epoch_end"
    /\ ~failed
    /\ params.do_validation
    /\ params.show_accuracy
    /\ h_passed = <<1, 0>>
    /\ h_epoch = <<1, 0>>
    /\ Len(h_loss) = 2
    /\ Len(h_accuracy) = 2
    /\ h_validation_loss = <<5, 6>>

\* ----------------------------------------------------- claims on BaseLogger

HasLabel(values, label) == \E i \in 1..Len(values) : values[i][1] = label

\* an update handed to the progress display by on_epoch_end carries 'val. loss'
\* exactly under do_validation and 'val. acc.' exactly under do_validation
\* and show_accuracy
EpochUpdateLabels ==
    (last = "bl_on_epoch_end") =>
        \A i \in 1..Len(bl_updates) :
            /\ HasLabel(bl_updates[i].values, "val. loss") <=> params.do_validation
            /\ HasLabel(bl_updates[i].values, "val. acc.") <=>
                  (params.do_validation /\ params.show_accuracy)

NoValidationLabel(values) ==
    ~HasLabel(values, "val. loss") /\ ~HasLabel(values, "val. acc.")

\* C6 as stated: the epoch-end update carries the validation entries exactly
\* when they are configured, and no per-batch update ever carries one.
C6_AsStated ==
    /\ EpochUpdateLabels
    /\ (last = "bl_on_batch_end") =>
          \A i \in 1..Len(bl_updates) : NoValidationLabel(bl_updates[i].values)

\* C6, amended: the same, a per-batch update carrying no validation entry
\* when an on_batch_begin was called after the latest on_epoch_begin and
\* on_epoch_end.
C6_ValidationEntries ==
    /\ EpochUpdateLabels
    /\ (last = "bl_on_batch_end" /\ bl_batch_begun) =>
          \A i \in 1..Len(bl_updates) : NoValidationLabel(bl_updates[i].values)

C6_Witness ==
    /\ last = "bl_on_epoch_end"
    /\ params.do_validation
    /\ params.show_accuracy
    /\ Len(bl_updates) = 1
    /\ bl_updates[1].current = 3
    /\ bl_updates[1].values =
          <<<<"loss", <<10, 1>>>>, <<"acc.", <<1, 1>>>>, <<"loss", <<24, 3>>>>,
            <<"acc.", <<2, 3>>>>, <<"val. loss", <<5, 1>>>>, <<"val. acc.", <<1, 1>>>>>>

\* a per-batch update of an on_batch_end that follows its on_batch_begin
C6_BatchWitness ==
    /\ last = "bl_on_batch_end"
    /\ bl_batch_begun
    /\ params.do_validation
    /\ Len(bl_updates) = 1
    /\ bl_updates[1].current = 1

\* the last call was an on_epoch_end that got past line 137: log_values and
\* the totals exist and the accumulated count is positive
EpochEndReachedUpdate ==
    /\ last = "bl_on_epoch_end"
    /\ bl_has_log_values
    /\ bl_has_totals
    /\ bl_current > 0

\* C12 as stated: every on_epoch_end issues exactly one progress-display
\* update carrying the accumulated sample count, whether or not the count
\* reached nb_sample and for every value of verbose, 0 included; an
\* on_batch_end issues one update if and only if verbose is non-zero and the
\* accumulated count is still below nb_sample.
C12_AsStated ==
    /\ EpochEndReachedUpdate =>
          /\ ~failed
          /\ Len(bl_updates) = 1
          /\ bl_updates[1].current = bl_current
    /\ (last = "bl_on_batch_end" /\ ~failed) =>
          /\ Len(bl_updates) <= 1
          /\ Len(bl_updates) = 1 <=>
                (params.verbose # 0 /\ bl_current < params.nb_sample)

\* ------------------------------------------------- claims on EarlyStopping

\* the minimum of the first n losses of h, +infinity for none
MinOfFirst(h, n) ==
    IF n = 0 THEN Inf
    ELSE CHOOSE m \in {h[j] : j \in 1..n} : \A j \in 1..n : m <= h[j]

\* the i-th loss of h is strictly below every loss before it
Improves(h, i) == h[i] < MinOfFirst(h, i - 1)

\* how many epoch ends among the first n came after the last improvement
EndsSinceImprovement(h, n) ==
    LET imp == {i \in 1..n : Improves(h, i)}
    IN  IF imp = {} THEN n
        ELSE n - (CHOOSE i \in imp : \A k \in imp : k <= i)

\* C1: an on_epoch_end call sets model.stop_training if and only if its loss
\* is not strictly below the minimum so far and at least patience epoch ends
\* have passed since the last improvement; so the flag is set as soon as, and
\* not before, patience + 1 consecutive epochs did not improve.  With
\* patience 2 and losses 1.0, 1.0, 1.0, 1.0 the flag is unset after three
\* calls and set by the fourth.
C1_StopTiming ==
    LET n == Len(fed)
    IN  /\ (last = "es_on_epoch_end") =>
              (es_wrote_stop <=>
                  /\ ~Improves(fed, n)
                  /\ EndsSinceImprovement(fed, n - 1) >= es_patience)
        /\ stop_training <=>
              \E i \in 1..n : EndsSinceImprovement(fed, i) >= es_patience + 1
        /\ (es_patience = 2 /\ n <= 3 /\ \A i \in 1..n : fed[i] = 10) => ~stop_training
        /\ (es_patience = 2 /\ fed = <<10, 10, 10, 10>>) => stop_training

C1_Witness ==
    /\ es_patience = 2
    /\ fed = <<10, 10, 10, 10>>
    /\ last = "es_on_epoch_end"
    /\ es_wrote_stop
    /\ stop_training

\* C9: after every on_epoch_end, best_val_loss is the minimum of the losses
\* fed so far (+infinity before the first) and wait is the number of epoch
\* ends since the last strictly improving one, also when the stop flag is set.
C9_BestAndWait ==
    /\ es_best_val_loss = MinOfFirst(fed, Len(fed))
    /\ es_wait = EndsSinceImprovement(fed, Len(fed))

C9_Witness ==
    /\ last = "es_on_epoch_end"
    /\ es_wrote_stop
    /\ es_wait = es_patience + 2
    /\ es_best_val_loss = 4
    /\ fed[1] = 6

StopFlagStep ==
    /\ es_wrote_stop' => stop_training'
    /\ stop_training => stop_training'
    /\ (last' = "es_on_epoch_end" /\ Improves(fed', Len(fed'))) =>
          /\ ~es_wrote_stop'
          /\ stop_training' = stop_training
          /\ es_wait' = 0

\* C17: EarlyStopping only ever writes True to model.stop_training; once
\* set the flag stays set under every later hook, a later strictly improving
\* epoch that resets wait to 0 included, and no epoch whose validation loss
\* is a strict improvement sets it.
C17_StopSticky == [][StopFlagStep]_vars

C17_Witness ==
    /\ last = "es_on_epoch_end"
    /\ es_patience = 0
    /\ fed = <<5, 5, 4>>
    /\ stop_training
    /\ ~es_wrote_stop
    /\ es_wait = 0
    /\ es_best_val_loss = 4

\* ----------------------------------------------- claims on ModelCheckpoint

\* the selection is by validation loss
ValidationBased == mc_save_best_only /\ params.do_validation

\* the last call among the first n that saved, 0 for none
LastSave(n) ==
    LET s == {i \in 1..n : saved[i] > 0}
    IN  IF s = {} THEN 0 ELSE CHOOSE i \in s : \A k \in s : k <= i

\* C2: with save_best_only and do_validation, an epoch end saves exactly when
\* its loss is strictly below every earlier loss (a tie does not save), each
\* save is one save_weights call, and best_val_loss is the loss of the last
\* epoch that saved; losses 0.5, 0.6, 0.4 save at epochs 0 and 2 only.
C2_BestOnly ==
    (mc_save_best_only /\ params.do_validation) =>
        /\ Len(saved) = Len(fed)
        /\ \A i \in 1..Len(fed) :
              /\ saved[i] \in {0, 1}
              /\ saved[i] = 1 <=> \A j \in 1..(i - 1) : fed[i] < fed[j]
        /\ mc_best_val_loss =
              (IF LastSave(Len(fed)) = 0 THEN Inf ELSE fed[LastSave(Len(fed))])
        /\ mc_val_loss = fed
        /\ (fed = <<5, 6, 4>>) => (saved = <<1, 0, 1>>)

C2_Witness ==
    /\ mc_save_best_only
    /\ params.do_validation
    /\ fed = <<5, 6, 4>>
    /\ saved = <<1, 0, 1>>
    /\ mc_best_val_loss = 4

\* C7: with save_best_only off, every on_epoch_end makes exactly one
\* save_weights call, whatever the loss and with or without validation, and
\* leaves best_val_loss, best_loss and both loss histories as constructed.
C7_AlwaysSave ==
    ~mc_save_best_only =>
        /\ Len(saved) = Len(fed)
        /\ \A i \in 1..Len(fed) : saved[i] = 1
        /\ mc_best_val_loss = Inf
        /\ mc_best_loss = Inf
        /\ mc_loss = <<>>
        /\ mc_val_loss = <<>>
        /\ ~failed

C7_Witness ==
    /\ ~mc_save_best_only
    /\ ~params.do_validation
    /\ last = "mc_on_epoch_end"
    /\ saved = <<1, 1, 1>>
    /\ fed = <<6, 5, 5>>

\* C8: with save_best_only on and do_validation off, every on_epoch_end
\* warns, makes no save_weights call, raises nothing and leaves
\* best_val_loss and the val_loss history as constructed.
C8_Misconfigured ==
    (mc_save_best_only /\ ~params.do_validation) =>
        /\ Len(saved) = Len(fed)
        /\ \A i \in 1..Len(fed) : saved[i] = 0
        /\ (last = "mc_on_epoch_end") => (warned /\ ~failed)
        /\ mc_best_val_loss = Inf
        /\ mc_val_loss = <<>>
        /\ mc_best_loss = Inf
        /\ mc_loss = <<>>

C8_Witness ==
    /\ mc_save_best_only
    /\ ~params.do_validation
    /\ last = "mc_on_epoch_end"
    /\ warned
    /\ saved = <<0, 0, 0>>
    /\ fed = <<6, 5, 4>>


\* C16 as stated: where the selection is not by validation, the loss history
\* holds one loss per on_epoch_end and best_loss is their minimum, a finite
\* number once a loss has been observed.
C16_AsStated ==
    ~ValidationBased =>
        /\ Len(mc_loss) = Len(fed)
        /\ fed # <<>> => mc_best_loss < Inf
        /\ mc_best_loss = MinOfFirst(mc_loss, Len(mc_loss))

\* C16, amended: no on_epoch_end writes best_loss or the loss history, which
\* stay +infinity and empty in every selection; only best_val_loss, where
\* the selection is by validation, is the minimum of the validation losses
\* observed so far, val_loss holding them.
C16_BestLossUnused ==
    /\ mc_best_loss = Inf
    /\ mc_loss = <<>>
    /\ ValidationBased =>
          /\ mc_best_val_loss = MinOfFirst(fed, Len(fed))
          /\ mc_val_loss = fed

C16_Witness ==
    /\ ~mc_save_best_only
    /\ params.do_validation
    /\ last = "mc_on_epoch_end"
    /\ fed = <<5, 4>>
    /\ mc_best_loss = Inf
    /\ mc_loss = <<>>

\* ------------------------------------------- claims on a mixed CallbackList

\* C13 as stated (the part on logs): whatever callbacks a CallbackList
\* holds, every callback of a dispatch finds in logs the mapping the training
\* loop supplied, and so does the training loop once the call has returned.
C13_AsStated ==
    ~failed =>
        /\ \A k \in 1..Len(d_seen) : d_seen[k] = d_supplied
        /\ d_hook = "none" => d_logs = d_supplied

\* the CallbackList holds a callback of class kind
InList(kind) == \E k \in 1..Len(cl_callbacks) : cl_callbacks[k] = kind

\* no hook but its own on_epoch_end writes best_val_loss or wait
NoResetStep ==
    /\ (last' # "es_on_epoch_end") =>
          (es_best_val_loss' = es_best_val_loss /\ es_wait' = es_wait)
    /\ (last' # "mc_on_epoch_end") => mc_best_val_loss' = mc_best_val_loss

\* between two calls of the training loop the minima and the wait count are
\* those of all the losses fed since construction, whatever on_train_end and
\* on_train_begin calls came in between (fed holds a loss once per callback
\* that read it, so wait is compared where EarlyStopping alone reads them)
CarriedOver ==
    (d_hook = "none") =>
        /\ InList("EarlyStopping") => es_best_val_loss = MinOfFirst(fed, Len(fed))
        /\ (InList("EarlyStopping") /\ ~InList("ModelCheckpoint")) =>
              es_wait = EndsSinceImprovement(fed, Len(fed))
        /\ (InList("ModelCheckpoint") /\ ValidationBased) =>
              mc_best_val_loss = MinOfFirst(fed, Len(fed))

\* C19: on_train_begin, on_train_end, on_epoch_begin and the batch events
\* leave EarlyStopping's best_val_loss and wait and ModelCheckpoint's
\* best_val_loss unchanged, so the first epoch of a second training run on
\* the same instances is compared against the minimum, and counted from the
\* wait, that the run before left.
C19_NoReset ==
    /\ []CarriedOver
    /\ [][NoResetStep]_vars

\* patience 0: the first epoch of a second run, worse than the first run's
\* minimum, sets the stop flag
C19_Witness ==
    /\ d_hook = "none"
    /\ last = "on_epoch_end"
    /\ cl_callbacks = <<"EarlyStopping">>
    /\ es_patience = 0
    /\ d_run_start = 1
    /\ fed = <<4, 5>>
    /\ es_best_val_loss = 4
    /\ es_wait = 1
    /\ stop_training

====
